---------------------------- MODULE Spec2Model ----------------------------
(***************************************************************************)
(* LangExtract Studio (src/LangExtract/app.py) and the batch script        *)
(* src/LangExtract/medical_extraction.py, as state machines.               *)
(*                                                                         *)
(* The Streamlit app is modelled by its session state and one action per   *)
(* handler (preset selection, prompt/classes edits, example add / remove / *)
(* clear, Run Extraction).  A handler's widget inputs are drawn from small *)
(* sets.  Python strings are sequences of one-character strings, so that   *)
(* str.strip, str.split and the `in` substring test are computed as Python *)
(* computes them.  The attribute column of an example (a free mapping that *)
(* is copied through unchanged and is read by no check) is left out.       *)
(*                                                                         *)
(* lx.extract, lx.io.save_annotated_documents and lx.visualize belong to   *)
(* the third-party langextract package, whose code is not part of this     *)
(* repository: a call is modelled by the arguments the caller passes and   *)
(* by a nondeterministic outcome (returns / raises).                       *)
(***************************************************************************)
EXTENDS Integers, Sequences, FiniteSets, TLC

(***************************************************************************)
(* Bounds of the model.                                                    *)
(***************************************************************************)
\* longest example list the Add handler is explored with
MaxExamples == 2
\* largest "Number of extractions" (widget range 1..20) explored
MaxRows == 1
\* number of lx.extract calls explored
MaxRuns == 2
\* longest result.extractions the export is explored with
MaxExtractions == 2

(***************************************************************************)
(* Python values.                                                          *)
(***************************************************************************)
\* Python's None where a string is expected (api_key, selectbox value)
None == <<"<None>">>

\* bool(x) for x a str or None
Truthy(x) == x # None /\ x # <<>>

IsWs(c) == c = " "

RECURSIVE lstrip(_)
lstrip(s) == IF s # <<>> /\ IsWs(Head(s)) THEN lstrip(Tail(s)) ELSE s

RECURSIVE rstrip(_)
rstrip(s) ==
    IF s # <<>> /\ IsWs(s[Len(s)]) THEN rstrip(SubSeq(s, 1, Len(s) - 1)) ELSE s

\* str.strip()
strip(s) == rstrip(lstrip(s))

\* the `in` operator on strings: sub in s
In(sub, s) ==
    \E i \in 0..(Len(s) - Len(sub)) : SubSeq(s, i + 1, i + Len(sub)) = sub

\* s.split(",")
RECURSIVE split(_)
split(s) ==
    IF \E i \in 1..Len(s) : s[i] = ","
    THEN LET i == CHOOSE k \in 1..Len(s) :
                      s[k] = "," /\ \A j \in 1..(k - 1) : s[j] # ","
         IN  <<SubSeq(s, 1, i - 1)>> \o split(SubSeq(s, i + 1, Len(s)))
    ELSE <<s>>

\* [f(x) for x in xs]
Map(f(_), xs) == [i \in 1..Len(xs) |-> f(xs[i])]

\* list.pop(i) for a 0-based index i, as the list left behind
Pop(xs, i) == SubSeq(xs, 1, i) \o SubSeq(xs, i + 2, Len(xs))

(***************************************************************************)
(* PRESET DEFINITIONS (app.py 37-117).  The emoji that starts each preset  *)
(* name is dropped.                                                        *)
(***************************************************************************)
SelectAPreset == "-- Select a preset --"

PRESET_NAMES ==
    << SelectAPreset,
       "Character Analysis (Literature)",
       "Medical / Clinical NER",
       "Legal Entity Extraction",
       "Customer Feedback Analysis",
       "Knowledge Graph Entities" >>

PresetCharacterPrompt ==
    <<"E","x","t","r","a","c","t"," ","c","h","a","r","a","c","t","e","r","s",","," ","t","h","e","i",
    "r"," ","e","m","o","t","i","o","n","a","l"," ","s","t","a","t","e","s",","," ","a","n","d"," ",
    "r","e","l","a","t","i","o","n","s","h","i","p","s"," ","i","n"," ","o","r","d","e","r"," ","o",
    "f"," ","a","p","p","e","a","r","a","n","c","e",".">>

PresetCharacterClasses ==
    <<"c","h","a","r","a","c","t","e","r">>

PresetCharacterText ==
    <<"R","O","M","E","O","."," ","B","u","t"," ","s","o","f","t","!"," ","W","h","a","t"," ","l","i",
    "g","h","t"," ","t","h","r","o","u","g","h"," ","y","o","n","d","e","r"," ","w","i","n","d","o",
    "w"," ","b","r","e","a","k","s","?"," ","I","t"," ","i","s"," ","t","h","e"," ","e","a","s","t",
    ","," ","a","n","d"," ","J","u","l","i","e","t"," ","i","s"," ","t","h","e"," ","s","u","n",
    ".">>

PresetCharacterExamples ==
    << [text |-> PresetCharacterText,
        extractions |-> <<
       [extraction_class |-> <<"c","h","a","r","a","c","t","e","r">>,
        extraction_text |->
            <<"R","O","M","E","O">>],
       [extraction_class |-> <<"c","h","a","r","a","c","t","e","r">>,
        extraction_text |->
            <<"J","u","l","i","e","t">>] >>] >>

PresetMedicalPrompt ==
    <<"E","x","t","r","a","c","t"," ","m","e","d","i","c","a","t","i","o","n","s",","," ","d","o","s",
    "a","g","e","s",","," ","r","o","u","t","e","s"," ","o","f"," ","a","d","m","i","n","i","s","t",
    "r","a","t","i","o","n",","," ","a","n","d"," ","a","n","y"," ","a","d","v","e","r","s","e"," ",
    "r","e","a","c","t","i","o","n","s"," ","m","e","n","t","i","o","n","e","d",".">>

PresetMedicalClasses ==
    <<"m","e","d","i","c","a","t","i","o","n",","," ","a","d","v","e","r","s","e","_","r","e","a","c",
    "t","i","o","n">>

PresetMedicalText ==
    <<"P","a","t","i","e","n","t"," ","w","a","s"," ","p","r","e","s","c","r","i","b","e","d"," ","M",
    "e","t","f","o","r","m","i","n"," ","5","0","0","m","g"," ","o","r","a","l","l","y"," ","t","w",
    "i","c","e"," ","d","a","i","l","y","."," ","R","e","p","o","r","t","e","d"," ","m","i","l","d",
    " ","n","a","u","s","e","a"," ","a","f","t","e","r"," ","f","i","r","s","t"," ","d","o","s","e",
    ".">>

PresetMedicalExamples ==
    << [text |-> PresetMedicalText,
        extractions |-> <<
       [extraction_class |-> <<"m","e","d","i","c","a","t","i","o","n">>,
        extraction_text |->
            <<"M","e","t","f","o","r","m","i","n"," ","5","0","0","m","g">>],
       [extraction_class |-> <<"a","d","v","e","r","s","e","_","r","e","a","c","t","i","o","n">>,
        extraction_text |->
            <<"m","i","l","d"," ","n","a","u","s","e","a">>] >>] >>

PresetLegalPrompt ==
    <<"E","x","t","r","a","c","t"," ","p","a","r","t","i","e","s",","," ","d","a","t","e","s",","," ",
    "o","b","l","i","g","a","t","i","o","n","s",","," ","a","n","d"," ","m","o","n","e","t","a","r",
    "y"," ","a","m","o","u","n","t","s"," ","f","r","o","m"," ","l","e","g","a","l"," ","t","e","x",
    "t",".">>

PresetLegalClasses ==
    <<"p","a","r","t","y",","," ","d","a","t","e",","," ","o","b","l","i","g","a","t","i","o","n",",",
    " ","a","m","o","u","n","t">>

PresetLegalText ==
    <<"A","C","M","E"," ","C","o","r","p"," ","a","g","r","e","e","s"," ","t","o"," ","p","a","y"," ",
    "W","i","d","g","e","t"," ","I","n","c"," ","$","5","0",",","0","0","0"," ","b","y"," ","D","e",
    "c","e","m","b","e","r"," ","3","1",","," ","2","0","2","5"," ","f","o","r"," ","c","o","n","s",
    "u","l","t","i","n","g"," ","s","e","r","v","i","c","e","s",".">>

PresetLegalExamples ==
    << [text |-> PresetLegalText,
        extractions |-> <<
       [extraction_class |-> <<"p","a","r","t","y">>,
        extraction_text |->
            <<"A","C","M","E"," ","C","o","r","p">>],
       [extraction_class |-> <<"p","a","r","t","y">>,
        extraction_text |->
            <<"W","i","d","g","e","t"," ","I","n","c">>],
       [extraction_class |-> <<"a","m","o","u","n","t">>,
        extraction_text |->
            <<"$","5","0",",","0","0","0">>],
       [extraction_class |-> <<"d","a","t","e">>,
        extraction_text |->
            <<"D","e","c","e","m","b","e","r"," ","3","1",","," ","2","0","2","5">>] >>] >>

PresetFeedbackPrompt ==
    <<"E","x","t","r","a","c","t"," ","s","e","n","t","i","m","e","n","t",","," ","p","r","o","d","u",
    "c","t"," ","f","e","a","t","u","r","e","s"," ","m","e","n","t","i","o","n","e","d",","," ","a",
    "n","d"," ","i","s","s","u","e","s"," ","r","e","p","o","r","t","e","d"," ","f","r","o","m"," ",
    "c","u","s","t","o","m","e","r"," ","r","e","v","i","e","w","s",".">>

PresetFeedbackClasses ==
    <<"f","e","a","t","u","r","e",","," ","i","s","s","u","e">>

PresetFeedbackText ==
    <<"L","o","v","e"," ","t","h","e"," ","b","a","t","t","e","r","y"," ","l","i","f","e"," ","o","n",
    " ","t","h","i","s"," ","p","h","o","n","e","!"," ","B","u","t"," ","t","h","e"," ","c","a","m",
    "e","r","a"," ","q","u","a","l","i","t","y"," ","i","n"," ","l","o","w"," ","l","i","g","h","t",
    " ","i","s"," ","t","e","r","r","i","b","l","e"," ","a","n","d"," ","t","h","e"," ","a","p","p",
    " ","c","r","a","s","h","e","s"," ","f","r","e","q","u","e","n","t","l","y",".">>

PresetFeedbackExamples ==
    << [text |-> PresetFeedbackText,
        extractions |-> <<
       [extraction_class |-> <<"f","e","a","t","u","r","e">>,
        extraction_text |->
            <<"b","a","t","t","e","r","y"," ","l","i","f","e">>],
       [extraction_class |-> <<"i","s","s","u","e">>,
        extraction_text |->
            <<"c","a","m","e","r","a"," ","q","u","a","l","i","t","y"," ","i","n"," ","l","o","w"," ","l","i",
            "g","h","t"," ","i","s"," ","t","e","r","r","i","b","l","e">>],
       [extraction_class |-> <<"i","s","s","u","e">>,
        extraction_text |->
            <<"a","p","p"," ","c","r","a","s","h","e","s"," ","f","r","e","q","u","e","n","t","l","y">>] >>] >>

PresetKnowledgePrompt ==
    <<"E","x","t","r","a","c","t"," ","e","n","t","i","t","i","e","s"," ","a","n","d"," ","t","h","e",
    "i","r"," ","r","e","l","a","t","i","o","n","s","h","i","p","s"," ","t","o"," ","p","o","p","u",
    "l","a","t","e"," ","a"," ","k","n","o","w","l","e","d","g","e"," ","g","r","a","p","h","."," ",
    "I","n","c","l","u","d","e"," ","e","n","t","i","t","y"," ","t","y","p","e","s"," ","a","n","d",
    " ","r","e","l","a","t","i","o","n","s","h","i","p"," ","l","a","b","e","l","s",".">>

PresetKnowledgeClasses ==
    <<"e","n","t","i","t","y",","," ","r","e","l","a","t","i","o","n","s","h","i","p">>

PresetKnowledgeText ==
    <<"A","l","b","e","r","t"," ","E","i","n","s","t","e","i","n"," ","d","e","v","e","l","o","p","e",
    "d"," ","t","h","e"," ","t","h","e","o","r","y"," ","o","f"," ","r","e","l","a","t","i","v","i",
    "t","y"," ","w","h","i","l","e"," ","w","o","r","k","i","n","g"," ","a","t"," ","t","h","e"," ",
    "S","w","i","s","s"," ","P","a","t","e","n","t"," ","O","f","f","i","c","e"," ","i","n"," ","B",
    "e","r","n",".">>

PresetKnowledgeExamples ==
    << [text |-> PresetKnowledgeText,
        extractions |-> <<
       [extraction_class |-> <<"e","n","t","i","t","y">>,
        extraction_text |->
            <<"A","l","b","e","r","t"," ","E","i","n","s","t","e","i","n">>],
       [extraction_class |-> <<"e","n","t","i","t","y">>,
        extraction_text |->
            <<"t","h","e","o","r","y"," ","o","f"," ","r","e","l","a","t","i","v","i","t","y">>],
       [extraction_class |-> <<"e","n","t","i","t","y">>,
        extraction_text |->
            <<"S","w","i","s","s"," ","P","a","t","e","n","t"," ","O","f","f","i","c","e">>],
       [extraction_class |-> <<"r","e","l","a","t","i","o","n","s","h","i","p">>,
        extraction_text |->
            <<"d","e","v","e","l","o","p","e","d">>] >>] >>
PRESETS ==
    [n \in {PRESET_NAMES[i] : i \in 2..Len(PRESET_NAMES)} |->
        CASE n = "Character Analysis (Literature)" ->
                 [prompt |-> PresetCharacterPrompt,
                  classes |-> PresetCharacterClasses,
                  examples |-> PresetCharacterExamples]
          [] n = "Medical / Clinical NER" ->
                 [prompt |-> PresetMedicalPrompt,
                  classes |-> PresetMedicalClasses,
                  examples |-> PresetMedicalExamples]
          [] n = "Legal Entity Extraction" ->
                 [prompt |-> PresetLegalPrompt,
                  classes |-> PresetLegalClasses,
                  examples |-> PresetLegalExamples]
          [] n = "Customer Feedback Analysis" ->
                 [prompt |-> PresetFeedbackPrompt,
                  classes |-> PresetFeedbackClasses,
                  examples |-> PresetFeedbackExamples]
          [] n = "Knowledge Graph Entities" ->
                 [prompt |-> PresetKnowledgePrompt,
                  classes |-> PresetKnowledgeClasses,
                  examples |-> PresetKnowledgeExamples]]

(***************************************************************************)
(* Input sets of the handlers.                                             *)
(***************************************************************************)
\* entries of the preset selectbox the model selects
PresetChoices == {SelectAPreset, "Medical / Clinical NER"}

\* texts typed into the prompt text area
PromptChoices == {<<" ">>, <<"p">>}

\* texts typed into the classes text input
ClassesChoices == {<<>>, <<" ", ",">>}

\* texts typed into "Example text passage"
ExampleTextChoices == {<<>>, <<" ">>, <<"a", "b", "c", " ">>}

\* texts typed into a "Verbatim text" field
VerbatimChoices == {<<>>, <<" ", "a", "b">>, <<"x", "y", "z">>}

\* value of the sidebar's text input (the API key, or the Ollama URL)
SidebarTextChoices == {<<>>, <<"k">>}

\* input_text of Step 3: None (no file uploaded) or the text given
InputTextChoices == {None, <<" ">>, <<"a">>, <<"a", "b", "c">>}

\* values of the "Chunk size (characters)" number input (0..100000)
ChunkSizeChoices == {0, 3}

\* values of the "Extraction passes" (1..5) and "Parallel workers" (1..20)
\* sliders
PassesChoices == {1, 2}
WorkersChoices == {1}

\* what the three langextract calls of one Run do
Outcomes == {"extract_raises", "save_raises", "visualize_raises", "ok"}

(***************************************************************************)
(* State.                                                                  *)
(***************************************************************************)
VARIABLES
    extraction_result,   \* st.session_state["extraction_result"]
    visualization_html,  \* st.session_state["visualization_html"]
    examples,            \* st.session_state["examples"]
    results_path,        \* st.session_state["results_path"]
    loaded_preset,       \* st.session_state["loaded_preset"]
    prompt_text,         \* st.session_state["prompt_text"]
    classes_text,        \* st.session_state["classes_text"]
    runs,                \* number of lx.extract calls made so far
    extract_kwargs,      \* arguments of the lx.extract call of the latest
                         \* step ({} when that step made no call)
    max_char_buffer,     \* the chunk size widget as read by that step
    feedback,            \* what the latest handler reported
    program,             \* which program runs: "app" or "script"
    script,              \* medical_extraction.py: position and locals
    extractions,         \* list(result.extractions) of the result exported
    selected_classes,    \* the "Filter by class" multiselect
    json_data,           \* app.py: the records behind "Download JSON"
    entities,            \* medical_extraction.py: structured["entities"]
    exported             \* the export code has run

vars == << extraction_result, visualization_html, examples, results_path,
           loaded_preset, prompt_text, classes_text,
           runs, extract_kwargs, max_char_buffer, feedback, program,
           script, extractions, selected_classes, json_data, entities,
           exported >>

\* the variables of the export
export_vars == << extractions, selected_classes, json_data, entities, exported >>

\* loaded_preset is None
NoPreset == "None"

\* extraction_result is None; a result is named by the call that made it
NoResult == [run |-> 0, text |-> <<>>]

\* results_path / visualization_html is None; otherwise the number of the
\* run whose tempfile.mkdtemp() directory / whose HTML it is
NoPath == 0
NoHtml == 0

\* no lx.extract call: the empty dict
NoKwargs == <<>>

entity == <<"e", "n", "t", "i", "t", "y">>

\* medical_extraction.py before run_extraction is called
ScriptIdle == [pc |-> "idle", api_key |-> None, i |-> 0, all_results |-> 0]

\* the session state of a new session
SessionDefaults ==
    /\ program \in {"app", "script"}
    /\ script = ScriptIdle
    /\ extraction_result = NoResult
    /\ visualization_html = NoHtml
    /\ examples = <<>>
    /\ results_path = NoPath
    /\ loaded_preset = NoPreset
    /\ prompt_text = <<>>
    /\ classes_text = entity
    /\ runs = 0
    /\ extract_kwargs = NoKwargs
    /\ max_char_buffer = 0
    /\ feedback = "none"

Init ==
    /\ SessionDefaults
    /\ extractions = <<>>
    /\ selected_classes = {}
    /\ json_data = <<>>
    /\ entities = <<>>
    /\ exported = FALSE

\* a step that is not Run Extraction makes no lx.extract call
NoRun ==
    /\ program = "app"
    /\ UNCHANGED << program, script, export_vars >>
    /\ extract_kwargs' = NoKwargs
    /\ max_char_buffer' = 0
    /\ UNCHANGED << runs, extraction_result, results_path, visualization_html >>

(***************************************************************************)
(* Step 1: preset, prompt, classes.                                        *)
(***************************************************************************)
\* on_change callback of the preset selectbox, with choice the entry selected
\* (any entry can be selected anew by way of another one)
load_preset_callback(choice) ==
    /\ IF choice # SelectAPreset /\ choice \in DOMAIN PRESETS
       THEN /\ prompt_text' = PRESETS[choice].prompt
            /\ classes_text' = PRESETS[choice].classes
            /\ examples' = PRESETS[choice].examples
            /\ loaded_preset' = choice
       ELSE UNCHANGED << prompt_text, classes_text, examples, loaded_preset >>
    /\ feedback' = "none"
    /\ NoRun

EditPrompt(v) ==
    /\ v # prompt_text
    /\ prompt_text' = v
    /\ feedback' = "none"
    /\ UNCHANGED << classes_text, examples, loaded_preset >>
    /\ NoRun

EditClasses(v) ==
    /\ v # classes_text
    /\ classes_text' = v
    /\ feedback' = "none"
    /\ UNCHANGED << prompt_text, examples, loaded_preset >>
    /\ NoRun

\* [c.strip() for c in classes_value.split(",") if c.strip()]
\*     if classes_value else ["entity"]
available_classes(classes_value) ==
    IF Truthy(classes_value)
    THEN SelectSeq(Map(strip, split(classes_value)), Truthy)
    ELSE <<entity>>

(***************************************************************************)
(* Step 2: few-shot examples.                                              *)
(***************************************************************************)
RemoveExample(i) ==
    /\ i \in 0..(Len(examples) - 1)
    /\ examples' = Pop(examples, i)
    /\ feedback' = "none"
    /\ UNCHANGED << prompt_text, classes_text, loaded_preset >>
    /\ NoRun

ClearAllExamples ==
    /\ examples # <<>>
    /\ examples' = <<>>
    /\ loaded_preset' = NoPreset
    /\ feedback' = "none"
    /\ UNCHANGED << prompt_text, classes_text >>
    /\ NoRun

\* value of the "Class #" selectbox: the option selected, None without options
ext_class(options, sel) ==
    IF options = <<>> THEN None ELSE options[sel]

\* rows kept by `if ext_text.strip():`, as stored
RECURSIVE new_extractions(_, _)
new_extractions(rows, options) ==
    IF rows = <<>> THEN <<>>
    ELSE LET row == Head(rows)
             rest == new_extractions(Tail(rows), options)
         IN  IF Truthy(strip(row.ext_text))
             THEN << [extraction_class |-> ext_class(options, row.sel),
                      extraction_text |-> strip(row.ext_text)] >> \o rest
             ELSE rest

\* bad = [e for e in new_extractions if e["extraction_text"] not in ex_text]
bad(exts, ex_text) ==
    SelectSeq(exts, LAMBDA e : ~In(e.extraction_text, ex_text))

\* the rows of the builder: one verbatim text and one class selection each
Rows ==
    UNION {[1..n -> [ext_text : VerbatimChoices, sel : 1..2]] : n \in 1..MaxRows}

\* "Add this example"
AddExample(ex_text, rows) ==
    LET exts == new_extractions(rows, available_classes(classes_text))
    IN  /\ Len(examples) < MaxExamples
        /\ \A k \in DOMAIN rows :
              rows[k].sel \in 1..Len(available_classes(classes_text)) \cup {1}
        /\ IF ~(Truthy(ex_text) /\ Truthy(strip(ex_text)))
           THEN /\ feedback' = "error_text"
                /\ UNCHANGED examples
           ELSE IF exts = <<>>
           THEN /\ feedback' = "error_extractions"
                /\ UNCHANGED examples
           ELSE IF bad(exts, ex_text) # <<>>
           THEN /\ feedback' = "error_verbatim"
                /\ UNCHANGED examples
           ELSE /\ examples' = Append(examples,
                                      [text |-> strip(ex_text),
                                       extractions |-> exts])
                /\ feedback' = "added"
        /\ UNCHANGED << prompt_text, classes_text, loaded_preset >>
        /\ NoRun

(***************************************************************************)
(* Sidebar: provider branch (app.py 145-174).                              *)
(***************************************************************************)
Providers == {"Gemini (Google)", "OpenAI", "Ollama (Local)"}

\* the variables the provider branch sets; sidebar_text is the value of the
\* branch's text input.  model_id is the selectbox default, model_options[0].
ProviderConfig(api_provider, sidebar_text) ==
    CASE api_provider = "Gemini (Google)" ->
             [api_key |-> sidebar_text, model_id |-> "gemini-2.5-flash",
              fence_output |-> TRUE, use_schema |-> TRUE, model_url |-> None]
      [] api_provider = "OpenAI" ->
             [api_key |-> sidebar_text, model_id |-> "gpt-4o",
              fence_output |-> TRUE, use_schema |-> FALSE, model_url |-> None]
      [] OTHER ->
             [api_key |-> None, model_id |-> "gemma2:2b",
              fence_output |-> FALSE, use_schema |-> FALSE,
              model_url |-> sidebar_text]

(***************************************************************************)
(* Step 4: checks and Run Extraction.                                      *)
(***************************************************************************)
prompt_filled(prompt_value) == Truthy(prompt_value) /\ Truthy(strip(prompt_value))

has_examples == examples # <<>>

has_input(input_text) == Truthy(input_text) /\ Truthy(strip(input_text))

has_key(api_provider, api_key) ==
    IF api_provider # "Ollama (Local)" THEN Truthy(api_key) ELSE TRUE

all_ready(api_provider, api_key, input_text) ==
    /\ has_key(api_provider, api_key)
    /\ prompt_filled(prompt_text)
    /\ has_examples
    /\ has_input(input_text)

\* lx.data.ExampleData / lx.data.Extraction built from the stored dicts
build_lx_examples ==
    Map(LAMBDA ex :
            [text |-> ex.text,
             extractions |->
                 Map(LAMBDA e : [extraction_class |-> e.extraction_class,
                                 extraction_text |-> e.extraction_text],
                     ex.extractions)],
        examples)

\* the dict passed as lx.extract(**extract_kwargs)
build_extract_kwargs(cfg, input_text, passes, workers, chunk_size) ==
    [text_or_documents |-> input_text,
     prompt_description |-> prompt_text,
     examples |-> build_lx_examples,
     model_id |-> cfg.model_id,
     extraction_passes |-> passes,
     max_workers |-> workers,
     fence_output |-> cfg.fence_output,
     use_schema_constraints |-> cfg.use_schema]
    @@ (IF Truthy(cfg.api_key) THEN [api_key |-> cfg.api_key] ELSE <<>>)
    @@ (IF Truthy(cfg.model_url) THEN [model_url |-> cfg.model_url] ELSE <<>>)
    @@ (IF chunk_size > 0 THEN [max_char_buffer |-> chunk_size] ELSE <<>>)

\* the "Run Extraction" button; it is disabled unless all_ready
RunExtraction(api_provider, sidebar_text, input_text, passes, workers, chunk_size, outcome) ==
    LET cfg == ProviderConfig(api_provider, sidebar_text)
        result == [run |-> runs + 1, text |-> input_text]
    IN  /\ program = "app"
        /\ UNCHANGED << program, script, export_vars >>
        /\ runs < MaxRuns
        /\ all_ready(api_provider, cfg.api_key, input_text)
        /\ extract_kwargs' =
               build_extract_kwargs(cfg, input_text, passes, workers, chunk_size)
        /\ max_char_buffer' = chunk_size
        /\ runs' = runs + 1
        /\ extraction_result' =
               IF outcome = "extract_raises" THEN extraction_result ELSE result
        /\ results_path' =
               IF outcome \in {"extract_raises", "save_raises"}
               THEN results_path ELSE runs + 1
        /\ visualization_html' =
               CASE outcome \in {"extract_raises", "save_raises"} ->
                        visualization_html
                 [] outcome = "visualize_raises" -> NoHtml
                 [] OTHER -> runs + 1
        /\ feedback' =
               IF outcome \in {"extract_raises", "save_raises"}
               THEN "extraction_failed" ELSE "complete"
        /\ UNCHANGED << examples, loaded_preset, prompt_text, classes_text >>

(***************************************************************************)
(* medical_extraction.py: run_extraction(CLINICAL_NOTES).  The prompt, the *)
(* examples and the note texts are only handed to lx.extract, and are      *)
(* modelled by their names.                                                *)
(***************************************************************************)
MEDICAL_PROMPT == "MEDICAL_PROMPT"
MEDICAL_EXAMPLES == "MEDICAL_EXAMPLES"

CLINICAL_NOTES ==
    << [id |-> "note_001", text |-> "note_001.text"],
       [id |-> "note_002", text |-> "note_002.text"],
       [id |-> "note_003", text |-> "note_003.text"] >>

\* values of the api_key argument and of os.getenv("LANGEXTRACT_API_KEY")
KeyChoices == {None, <<>>, <<"k">>}

\* a or b
Or(a, b) == IF Truthy(a) THEN a ELSE b

AppUnchanged ==
    UNCHANGED << extraction_result, visualization_html, examples,
                 results_path, loaded_preset, prompt_text, classes_text,
                 runs, feedback, program, export_vars >>

\* run_extraction up to the loop: the API key check
run_extraction_start(api_key, env_key) ==
    LET key == Or(api_key, env_key)
    IN  /\ program = "script"
        /\ script.pc = "idle"
        /\ script' = IF ~Truthy(key)
                     THEN [script EXCEPT !.pc = "ValueError"]
                     ELSE [script EXCEPT !.pc = "loop", !.api_key = key]
        /\ extract_kwargs' = NoKwargs
        /\ max_char_buffer' = 0
        /\ AppUnchanged

\* one iteration of `for note in notes`, and the return after the last one
run_extraction_note(outcome) ==
    /\ program = "script"
    /\ script.pc = "loop"
    /\ script.i < Len(CLINICAL_NOTES)
    /\ extract_kwargs' =
           [text_or_documents |-> CLINICAL_NOTES[script.i + 1].text,
            prompt_description |-> MEDICAL_PROMPT,
            examples |-> MEDICAL_EXAMPLES,
            model_id |-> "gemini-2.5-flash",
            api_key |-> script.api_key,
            extraction_passes |-> 2,
            max_workers |-> 1]
    /\ max_char_buffer' = 0
    /\ script' =
           CASE outcome = "extract_raises" ->
                    [script EXCEPT !.pc = "Exception"]
             [] outcome = "save_raises" ->
                    [script EXCEPT !.pc = "Exception",
                                   !.all_results = @ + 1]
             [] OTHER ->
                    [script EXCEPT
                        !.pc = IF script.i + 1 = Len(CLINICAL_NOTES)
                               THEN "returned" ELSE "loop",
                        !.i = @ + 1,
                        !.all_results = @ + 1]
    /\ AppUnchanged

Next ==
    \/ \E choice \in PresetChoices : load_preset_callback(choice)
    \/ \E v \in PromptChoices : EditPrompt(v)
    \/ \E v \in ClassesChoices : EditClasses(v)
    \/ \E i \in 0..(MaxExamples - 1) : RemoveExample(i)
    \/ ClearAllExamples
    \/ \E ex_text \in ExampleTextChoices, rows \in Rows : AddExample(ex_text, rows)
    \/ \E api_provider \in Providers, sidebar_text \in SidebarTextChoices,
          input_text \in InputTextChoices, passes \in PassesChoices,
          workers \in WorkersChoices, chunk_size \in ChunkSizeChoices,
          outcome \in Outcomes :
            RunExtraction(api_provider, sidebar_text, input_text, passes,
                          workers, chunk_size, outcome)
    \/ \E api_key \in KeyChoices, env_key \in KeyChoices :
            run_extraction_start(api_key, env_key)
    \/ \E outcome \in Outcomes : run_extraction_note(outcome)

Spec == Init /\ [][Next]_vars

(***************************************************************************)
(* The export of a result: the results section of app.py (442-481) and     *)
(* the collection loop of medical_extraction.py (277-311), as functions of *)
(* result.extractions.  A result is whatever lx.extract returned; its      *)
(* extractions are drawn from a small set.  A class and a text are opaque  *)
(* strings here; attributes is None, {} or a dict, a dict being the        *)
(* sequence of its (key, value) pairs.  json.dumps is not modelled.        *)
(***************************************************************************)
\* attributes is None
AttrNone == << <<"<None>">> >>

AttributeChoices == {AttrNone, <<>>, << <<"role", "payer">> >>}

ExtractionChoices ==
    [extraction_class : {"party", "amount"},
     extraction_text : {"ACME Corp"},
     attributes : AttributeChoices]

\* the results lx.extract is taken to return
ExtractionLists ==
    UNION {[1..n -> ExtractionChoices] : n \in 0..MaxExtractions}

\* all_classes = sorted(class_counts.keys()), as a set
all_classes(exts) == {exts[i].extraction_class : i \in DOMAIN exts}

\* a plausible slip: only the extractions displayed under the filter
json_records_displayed(exts) ==
    LET shown == SelectSeq(exts, LAMBDA e : e.extraction_class \in selected_classes')
    IN  [i \in 1..Len(shown) |->
            [class |-> shown[i].extraction_class,
             text |-> shown[i].extraction_text,
             attributes |-> shown[i].attributes]]

\* [{"class": ..., "text": ..., "attributes": e.attributes} for e in extractions]
json_records(exts) ==
    [i \in 1..Len(exts) |->
        [class |-> exts[i].extraction_class,
         text |-> exts[i].extraction_text,
         attributes |-> exts[i].attributes]]

\* ext.attributes if ext.attributes else {}
attributes_or_empty(attributes) ==
    IF attributes # AttrNone /\ attributes # <<>> THEN attributes ELSE <<>>

\* structured["entities"] after the loop over extractions
structured_entities(exts) ==
    [i \in 1..Len(exts) |->
        [class |-> exts[i].extraction_class,
         text |-> exts[i].extraction_text,
         attributes |-> attributes_or_empty(exts[i].attributes)]]

\* a result has been stored or returned; nothing exported yet
ExportInit ==
    /\ SessionDefaults
    /\ extractions \in ExtractionLists
    /\ selected_classes = all_classes(extractions)
    /\ json_data = <<>>
    /\ entities = <<>>
    /\ exported = FALSE

SessionUnchanged ==
    UNCHANGED << extraction_result, visualization_html, examples,
                 results_path, loaded_preset, prompt_text, classes_text,
                 runs, extract_kwargs, max_char_buffer, feedback, program,
                 script >>

\* app.py: a rerun of the results section with the filter set to sel
ResultsSection(sel) ==
    /\ program = "app"
    /\ sel \subseteq all_classes(extractions)
    /\ selected_classes' = sel
    /\ json_data' = json_records(extractions)
    /\ exported' = TRUE
    /\ UNCHANGED << extractions, entities >>
    /\ SessionUnchanged

\* medical_extraction.py: the loop `for ext in extractions`
CollectEntities ==
    /\ program = "script"
    /\ ~exported
    /\ entities' = structured_entities(extractions)
    /\ exported' = TRUE
    /\ UNCHANGED << extractions, selected_classes, json_data >>
    /\ SessionUnchanged

ExportNext ==
    \/ \E sel \in SUBSET {"party", "amount"} : ResultsSection(sel)
    \/ CollectEntities

ExportSpec == ExportInit /\ [][ExportNext]_vars

(***************************************************************************)
(* C13.  The JSON export holds exactly one {class, text, attributes}       *)
(* record per extraction of the result, in the result's order and with     *)
(* the values unchanged, whatever class filter is selected.                *)
(***************************************************************************)
\* the records exported by the program that runs
Exported == IF program = "app" THEN json_data ELSE entities

\* as claimed: every value unchanged, in both programs
C13_ExportUnchanged ==
    exported =>
        /\ Len(Exported) = Len(extractions)
        /\ \A i \in DOMAIN extractions :
              /\ Exported[i].class = extractions[i].extraction_class
              /\ Exported[i].text = extractions[i].extraction_text
              /\ Exported[i].attributes = extractions[i].attributes

\* as amended: the app exports every value unchanged; the script writes an
\* attributes value of None as {}
C13_ExportPerExtraction ==
    exported =>
        /\ Len(Exported) = Len(extractions)
        /\ \A i \in DOMAIN extractions :
              /\ Exported[i].class = extractions[i].extraction_class
              /\ Exported[i].text = extractions[i].extraction_text
              /\ Exported[i].attributes =
                     IF program = "script" /\ extractions[i].attributes = AttrNone
                     THEN <<>>
                     ELSE extractions[i].attributes

\* the app has exported a result of two extractions while the filter hides
\* one of them
C13_Witness ==
    /\ exported
    /\ program = "app"
    /\ Len(extractions) = 2
    /\ \E i \in DOMAIN extractions :
          extractions[i].extraction_class \notin selected_classes
    /\ \E i \in DOMAIN extractions : extractions[i].attributes = AttrNone

(***************************************************************************)
(* What lx.extract is asked to do with the chunk size.  The app names no   *)
(* max_char_buffer when the widget holds 0, so langextract's own default   *)
(* governs the call.  That default is 1000 characters; it is scaled to 2   *)
(* here, between the lengths of the two documents of InputTextChoices.     *)
(***************************************************************************)
LxDefaultMaxCharBuffer == 2

\* the character budget in force for the lx.extract call with these arguments
BudgetInForce(kwargs) ==
    IF "max_char_buffer" \in DOMAIN kwargs
    THEN kwargs.max_char_buffer
    ELSE LxDefaultMaxCharBuffer

\* the call handles the whole document as one chunk: nothing exceeds the
\* budget
ProcessedAsOneChunk(kwargs) ==
    Len(kwargs.text_or_documents) <= BudgetInForce(kwargs)

\* the latest step called lx.extract
Called == extract_kwargs # NoKwargs

\* an example as Example Schema wants it: every extraction_text occurs
\* verbatim in the text, every extraction_class is non-empty
ValidExample(ex) ==
    \A k \in DOMAIN ex.extractions :
        /\ In(ex.extractions[k].extraction_text, ex.text)
        /\ Truthy(ex.extractions[k].extraction_class)

(***************************************************************************)
(* C3.  When the chunk size is set to 0, the run handles the document as   *)
(* exactly one chunk, whatever the document's length.                      *)
(***************************************************************************)
C3_ZeroMeansOneChunk ==
    (program = "app" /\ Called /\ max_char_buffer = 0)
        => ProcessedAsOneChunk(extract_kwargs)

(***************************************************************************)
(* C8.  lx.extract is called only for a complete task definition and       *)
(* configuration: non-empty prompt, non-empty class vocabulary, at least   *)
(* one example, and the credential the provider requires.                  *)
(***************************************************************************)
C8_NoCallWhenIncomplete ==
    Called =>
        IF program = "app"
        THEN /\ Truthy(strip(extract_kwargs.prompt_description))
             /\ available_classes(classes_text) # <<>>
             /\ Len(extract_kwargs.examples) >= 1
             /\ \/ "api_key" \in DOMAIN extract_kwargs
                \/ extract_kwargs.model_id = "gemma2:2b"
        ELSE /\ extract_kwargs.prompt_description = MEDICAL_PROMPT
             /\ extract_kwargs.examples = MEDICAL_EXAMPLES
             /\ Truthy(extract_kwargs.api_key)

(***************************************************************************)
(* C9.  Validation of an authored example fails when an extraction_text    *)
(* is not a literal substring of the example text or an extraction_class   *)
(* is empty: an example that was added has neither defect.                 *)
(***************************************************************************)
C9_AddedExampleIsValid ==
    feedback = "added" => ValidExample(examples[Len(examples)])

(***************************************************************************)
(* C10.  Every example handed to an extraction run is valid: each          *)
(* extraction_text occurs verbatim in the stored text and each             *)
(* extraction_class is non-empty.                                          *)
(***************************************************************************)
C10_ExamplesOfARunAreValid ==
    (program = "app" /\ Called) =>
        \A n \in DOMAIN extract_kwargs.examples :
            ValidExample(extract_kwargs.examples[n])

(***************************************************************************)
(* C19.  The stored results_path and visualization_html belong to the same *)
(* run as the stored extraction_result: the JSONL and the HTML offered for *)
(* download are never those of another run than the result displayed.      *)
(***************************************************************************)
C19_DownloadsBelongToResult ==
    program = "app" =>
        /\ results_path # NoPath => results_path = extraction_result.run
        /\ visualization_html # NoHtml =>
               visualization_html = extraction_result.run

=============================================================================
